---- MODULE Spec2Model ----
(***************************************************************************)
(* Model of the zookeeper-operator CRD crate (src/crd/src/lib.rs).         *)
(*                                                                         *)
(* The crate is a library of data types and pure functions.  The state is  *)
(* the pair of resource records a controller holds (ZooKeeperClusterSpec   *)
(* and ZooKeeperClusterStatus) together with the record of the last call   *)
(* into the crate and what it returned.                                    *)
(*                                                                         *)
(* Strings are sequences of one-character strings, so that formatting,     *)
(* parsing and renaming are computed character by character.               *)
(*   Option<T> : <<>> is None, <<x>> is Some(x).                           *)
(***************************************************************************)
EXTENDS Integers, Sequences, FiniteSets, TLC

VARIABLES spec, status, call

vars == <<spec, status, call>>

\* Longest `conditions` vector the status record carries in the model.
MaxConditions == 1

-----------------------------------------------------------------------------
(* Option and Result values *)

None == <<>>
Some(x) == <<x>>
IsSome(o) == o # <<>>

Ok(x) == [ok |-> TRUE, val |-> <<x>>, err |-> <<>>]
Err(e) == [ok |-> FALSE, val |-> <<>>, err |-> <<e>>]

\* Outcome of a function that may panic instead of returning.
Returned(x) == [panicked |-> FALSE, ret |-> <<x>>]
Panicked == [panicked |-> TRUE, ret |-> <<>>]

-----------------------------------------------------------------------------
(* enum ZooKeeperVersion and its two string tables *)

ZooKeeperVersion == {"v3_4_14", "v3_5_8"}

\* Declaration order of the variants.
VersionVariants == <<"v3_4_14", "v3_5_8">>

\* A drifted strum table: the second variant loses its patch component.
StrumSerializeDrift(v) ==
    CASE v = "v3_4_14" -> <<"3", ".", "4", ".", "1", "4">>
      [] v = "v3_5_8" -> <<"3", ".", "5">>

\* #[strum(serialize = "...")]: the string of Display and of EnumString.
StrumSerialize(v) ==
    CASE v = "v3_4_14" -> <<"3", ".", "4", ".", "1", "4">>
      [] v = "v3_5_8" -> <<"3", ".", "5", ".", "8">>

\* The serde table with the rename attribute missing on the second variant:
\* serde then uses the variant identifier.
SerdeRenameIdent(v) ==
    CASE v = "v3_4_14" -> <<"3", ".", "4", ".", "1", "4">>
      [] v = "v3_5_8" -> <<"v", "3", "_", "5", "_", "8">>

\* #[serde(rename = "...")]: the string of Serialize / Deserialize.
SerdeRename(v) ==
    CASE v = "v3_4_14" -> <<"3", ".", "4", ".", "1", "4">>
      [] v = "v3_5_8" -> <<"3", ".", "5", ".", "8">>

\* Display without the strum attribute: the variant identifier.
to_string_ident(v) ==
    CASE v = "v3_4_14" -> <<"v", "3", "_", "4", "_", "1", "4">>
      [] v = "v3_5_8" -> <<"v", "3", "_", "5", "_", "8">>

\* strum_macros::Display: version.to_string()
to_string(v) == StrumSerialize(v)

\* strum_macros::EnumString: the first variant, in declaration order, whose
\* serialize string equals s exactly; VariantNotFound otherwise.
RECURSIVE MatchVariant(_, _)
MatchVariant(s, i) ==
    IF i > Len(VersionVariants) THEN Err("VariantNotFound")
    ELSE IF StrumSerialize(VersionVariants[i]) = s THEN Ok(VersionVariants[i])
    ELSE MatchVariant(s, i + 1)

\* A parser that resolves an unknown string to the first variant.
from_str_or_default(s) ==
    IF MatchVariant(s, 1).ok THEN MatchVariant(s, 1) ELSE Ok(VersionVariants[1])

from_str(s) == MatchVariant(s, 1)

-----------------------------------------------------------------------------
(* semver::Version::parse and the ordering of semver::Version *)

Digits == <<"0", "1", "2", "3", "4", "5", "6", "7", "8", "9">>

IsDigit(c) == \E i \in 1..Len(Digits) : Digits[i] = c

DigitVal(c) == (CHOOSE i \in 1..Len(Digits) : Digits[i] = c) - 1

\* The pieces of s between occurrences of sep.
RECURSIVE Split(_, _)
Split(s, sep) ==
    IF \A i \in 1..Len(s) : s[i] # sep THEN <<s>>
    ELSE LET k == CHOOSE i \in 1..Len(s) :
                    s[i] = sep /\ \A j \in 1..(i - 1) : s[j] # sep
         IN <<SubSeq(s, 1, k - 1)>> \o Split(SubSeq(s, k + 1, Len(s)), sep)

RECURSIVE DecimalValue(_)
DecimalValue(ds) ==
    IF ds = <<>> THEN 0
    ELSE 10 * DecimalValue(SubSeq(ds, 1, Len(ds) - 1)) + DigitVal(ds[Len(ds)])

\* A numeric identifier: one or more digits, no leading zero.
IsNumericIdentifier(ds) ==
    /\ Len(ds) >= 1
    /\ \A i \in 1..Len(ds) : IsDigit(ds[i])
    /\ (Len(ds) > 1 => ds[1] # "0")

\* Version::parse over strings of digits, dots and letters (no pre-release
\* or build suffix): exactly major.minor.patch.
VersionParse(s) ==
    LET parts == Split(s, ".")
    IN IF Len(parts) = 3 /\ \A i \in 1..3 : IsNumericIdentifier(parts[i])
       THEN Ok(<<DecimalValue(parts[1]), DecimalValue(parts[2]),
                 DecimalValue(parts[3])>>)
       ELSE Err("SemVerError")

\* a >= b in place of a > b.
VersionGe(a, b) ==
    \/ a[1] > b[1]
    \/ a[1] = b[1] /\ a[2] > b[2]
    \/ a[1] = b[1] /\ a[2] = b[2] /\ a[3] >= b[3]

\* The major component alone decides.
VersionGtMajorOnly(a, b) == a[1] > b[1]

\* a > b for semver::Version: major, then minor, then patch.
VersionGt(a, b) ==
    \/ a[1] > b[1]
    \/ a[1] = b[1] /\ a[2] > b[2]
    \/ a[1] = b[1] /\ a[2] = b[2] /\ a[3] > b[3]

\* ZooKeeperVersion::is_valid_upgrade(&self, to)
is_valid_upgrade(self, to) ==
    LET from_version == VersionParse(to_string(self))
        to_version == VersionParse(to_string(to))
    IN IF ~from_version.ok THEN Err(from_version.err[1])
       ELSE IF ~to_version.ok THEN Err(to_version.err[1])
       ELSE Ok(VersionGt(to_version.val[1], from_version.val[1]))

-----------------------------------------------------------------------------
(* struct ZooKeeperConfiguration and its projection to a string map *)

\* The field identifiers, in declaration order.
ConfigFields ==
    << <<"c", "l", "i", "e", "n", "t", "_", "p", "o", "r", "t">>,
       <<"d", "a", "t", "a", "_", "d", "i", "r">>,
       <<"i", "n", "i", "t", "_", "l", "i", "m", "i", "t">>,
       <<"s", "y", "n", "c", "_", "l", "i", "m", "i", "t">>,
       <<"t", "i", "c", "k", "_", "t", "i", "m", "e">> >>

\* The value of the i-th field of a configuration.
FieldValue(conf, i) ==
    CASE i = 1 -> conf.client_port
      [] i = 2 -> conf.data_dir
      [] i = 3 -> conf.init_limit
      [] i = 4 -> conf.sync_limit
      [] i = 5 -> conf.tick_time

LowerCase == <<"a", "b", "c", "d", "e", "f", "g", "h", "i", "j", "k", "l", "m",
               "n", "o", "p", "q", "r", "s", "t", "u", "v", "w", "x", "y", "z">>
UpperCase == <<"A", "B", "C", "D", "E", "F", "G", "H", "I", "J", "K", "L", "M",
               "N", "O", "P", "Q", "R", "S", "T", "U", "V", "W", "X", "Y", "Z">>

to_ascii_uppercase(c) ==
    IF \E i \in 1..Len(LowerCase) : LowerCase[i] = c
    THEN UpperCase[CHOOSE i \in 1..Len(LowerCase) : LowerCase[i] = c]
    ELSE c

to_ascii_lowercase(c) ==
    IF \E i \in 1..Len(UpperCase) : UpperCase[i] = c
    THEN LowerCase[CHOOSE i \in 1..Len(UpperCase) : UpperCase[i] = c]
    ELSE c

\* serde's PascalCase rule on a field identifier: drop each underscore and
\* capitalise the character that follows it, and the first character.
RECURSIVE PascalCase(_, _)
PascalCase(field, capitalize) ==
    IF field = <<>> THEN <<>>
    ELSE IF Head(field) = "_" THEN PascalCase(Tail(field), TRUE)
    ELSE IF capitalize
         THEN <<to_ascii_uppercase(Head(field))>> \o PascalCase(Tail(field), FALSE)
         ELSE <<Head(field)>> \o PascalCase(Tail(field), FALSE)

\* No rename_all attribute: the field identifier is the key.
SnakeCase(field) == field

\* #[serde(rename_all = "camelCase")]: PascalCase with the first character
\* lowered.
CamelCase(field) ==
    LET pascal == PascalCase(field, TRUE)
    IN IF pascal = <<>> THEN <<>>
       ELSE <<to_ascii_lowercase(pascal[1])>> \o Tail(pascal)

\* u32::to_string: base 10, no sign, no padding.
RECURSIVE U32ToString(_)
U32ToString(n) ==
    IF n < 10 THEN <<Digits[n + 1]>>
    ELSE U32ToString(n \div 10) \o <<Digits[(n % 10) + 1]>>

\* The string form of the value of the i-th field: data_dir is a String and
\* is kept as it is, the others are u32.
FieldValueString(i, x) == IF i = 2 THEN x ELSE U32ToString(x)

\* Insertion into a HashMap<String, String>: a later entry with the same
\* key replaces the earlier one.
MapInsert(m, k, x) == [y \in (DOMAIN m) \cup {k} |-> IF y = k THEN x ELSE m[y]]

EmptyMap == [y \in {} |-> <<>>]

\* A projection that writes a default for an absent field.
RECURSIVE ProjectFromDefaults(_, _, _)
ProjectFromDefaults(conf, i, m) ==
    IF i > Len(ConfigFields) THEN m
    ELSE ProjectFromDefaults(conf, i + 1,
             MapInsert(m, CamelCase(ConfigFields[i]),
                       IF IsSome(FieldValue(conf, i))
                       THEN FieldValueString(i, FieldValue(conf, i)[1])
                       ELSE IF i = 2 THEN <<>> ELSE <<"0">>))

\* ser::to_hash_map: the fields in declaration order; a None field is
\* skipped, a Some field is inserted under its serialized name.
RECURSIVE ProjectFrom(_, _, _)
ProjectFrom(conf, i, m) ==
    IF i > Len(ConfigFields) THEN m
    ELSE IF IsSome(FieldValue(conf, i))
         THEN ProjectFrom(conf, i + 1,
                  MapInsert(m, CamelCase(ConfigFields[i]),
                            FieldValueString(i, FieldValue(conf, i)[1])))
         ELSE ProjectFrom(conf, i + 1, m)

to_hash_map(conf) == Ok(ProjectFrom(conf, 1, EmptyMap))

-----------------------------------------------------------------------------
(* struct ZooKeeperClusterStatus and target_image_name *)

\* serde_json::json!(version): a unit variant serializes to the JSON string
\* of its serde name.
JsonValue(version) == [kind |-> "String", str |-> SerdeRename(version)]

\* serde_json::Value::as_str
as_str(value) == IF value.kind = "String" THEN Some(value.str) ELSE None

ImagePrefix == <<"s", "t", "a", "c", "k", "a", "b", "l", "e", "/",
                 "z", "o", "o", "k", "e", "e", "p", "e", "r", ":">>

\* The image name taken from current_version instead of target_version.
target_image_name_current(self) ==
    IF ~IsSome(self.current_version) THEN Returned(None)
    ELSE LET name == as_str(JsonValue(self.current_version[1]))
         IN IF ~IsSome(name) THEN Panicked
            ELSE Returned(Some(ImagePrefix \o name[1]))

\* ZooKeeperClusterStatus::target_image_name(&self); unwrap() panics on None.
target_image_name(self) ==
    IF ~IsSome(self.target_version) THEN Returned(None)
    ELSE LET name == as_str(JsonValue(self.target_version[1]))
         IN IF ~IsSome(name) THEN Panicked
            ELSE Returned(Some(ImagePrefix \o name[1]))

-----------------------------------------------------------------------------
(* The values the records range over *)

OptionVersion == {None} \cup {Some(v) : v \in ZooKeeperVersion}

DataDirSamples == { <<"/", "z", "k">> }

Configurations ==
    [client_port : {None, Some(2181)},
     data_dir : {None} \cup {Some(d) : d \in DataDirSamples},
     init_limit : {None, Some(10)},
     sync_limit : {None, Some(0)},
     tick_time : {None, Some(123), Some(2000)}]

\* The servers vector is read by no function of the crate and is left out.
ClusterSpecs ==
    [version : ZooKeeperVersion,
     config : {None} \cup {Some(c) : c \in Configurations}]

\* Conditions are opaque to the crate; one kind is enough to tell vectors
\* apart by length.
ConditionVectors ==
    UNION {[1..n -> {"Ready"}] : n \in 0..MaxConditions}

ClusterStatuses ==
    [current_version : OptionVersion,
     target_version : OptionVersion,
     conditions : ConditionVectors]

\* #[derive(Default)] of ZooKeeperClusterStatus.
DefaultStatus ==
    [current_version |-> None, target_version |-> None, conditions |-> <<>>]

\* Version strings a user may supply: every string within one edit
\* (deletion, substitution, insertion) of an enumerated literal, and a few
\* others.
EditAlphabet == {"3", "0", ".", "v"}

Without(s, i) == SubSeq(s, 1, i - 1) \o SubSeq(s, i + 1, Len(s))
InsertAt(s, i, c) == SubSeq(s, 1, i - 1) \o <<c>> \o SubSeq(s, i, Len(s))

OneEdit(s) ==
    {Without(s, i) : i \in 1..Len(s)}
      \cup {[s EXCEPT ![i] = c] : i \in 1..Len(s), c \in EditAlphabet}
      \cup {InsertAt(s, i, c) : i \in 1..(Len(s) + 1), c \in EditAlphabet}

InputStrings ==
    {StrumSerialize(v) : v \in ZooKeeperVersion}
      \cup UNION {OneEdit(StrumSerialize(v)) : v \in ZooKeeperVersion}
      \cup { <<"1", ".", "2", ".", "3">>,
             <<>>,
             <<"v", "3", "_", "4", "_", "1", "4">>,
             <<"v", "3", "_", "5", "_", "8">>,
             <<"3", ".", "5">> }

-----------------------------------------------------------------------------
(* The state machine: a sequential caller.  It writes the records, calls into
   the crate, and takes each result before its next step. *)

NoCall == [op |-> "none", arg |-> <<>>, result |-> <<>>, src |-> <<>>]

Init ==
    /\ spec \in ClusterSpecs
    /\ status = DefaultStatus
    /\ call = NoCall

\* The controller replaces the desired state wholesale.
ReplaceSpec ==
    /\ call = NoCall
    /\ \E s \in ClusterSpecs : spec' = s
    /\ spec' # spec
    /\ call' = NoCall
    /\ UNCHANGED status

\* The controller writes the observed state.
UpdateStatus ==
    /\ call = NoCall
    /\ \E s \in ClusterStatuses : status' = s
    /\ status' # status
    /\ call' = NoCall
    /\ UNCHANGED spec

\* ZooKeeperVersion::from_str on a user-supplied string.
CallFromStr ==
    /\ call = NoCall
    /\ \E s \in InputStrings :
         call' = [op |-> "from_str", arg |-> <<s>>, result |-> from_str(s),
                  src |-> <<>>]
    /\ UNCHANGED <<spec, status>>

\* version.to_string() on an enumerated version.
CallToString ==
    /\ call = NoCall
    /\ \E v \in ZooKeeperVersion :
         call' = [op |-> "to_string", arg |-> <<v>>, result |-> to_string(v),
                  src |-> <<>>]
    /\ UNCHANGED <<spec, status>>

\* Format the version the last from_str returned; src is the string it was
\* parsed from.
FormatParsed ==
    /\ call.op = "from_str"
    /\ call.result.ok
    /\ call' = [op |-> "to_string", arg |-> call.result.val,
                result |-> to_string(call.result.val[1]), src |-> call.arg]
    /\ UNCHANGED <<spec, status>>

\* Parse the string the last to_string returned; src is the version it was
\* formatted from.
ParseFormatted ==
    /\ call.op = "to_string"
    /\ call' = [op |-> "from_str", arg |-> <<call.result>>,
                result |-> from_str(call.result), src |-> call.arg]
    /\ UNCHANGED <<spec, status>>

\* current_version.is_valid_upgrade(&spec.version)
CallIsValidUpgrade ==
    /\ call = NoCall
    /\ IsSome(status.current_version)
    /\ call' = [op |-> "is_valid_upgrade",
                arg |-> <<status.current_version[1], spec.version>>,
                result |-> is_valid_upgrade(status.current_version[1],
                                            spec.version),
                src |-> <<>>]
    /\ UNCHANGED <<spec, status>>

\* status.target_image_name()
CallTargetImageName ==
    /\ call = NoCall
    /\ call' = [op |-> "target_image_name", arg |-> <<status>>,
                result |-> target_image_name(status), src |-> <<>>]
    /\ UNCHANGED <<spec, status>>

\* ser::to_hash_map(&conf) on the configuration block of the spec.
CallToHashMap ==
    /\ call = NoCall
    /\ IsSome(spec.config)
    /\ call' = [op |-> "to_hash_map", arg |-> spec.config,
                result |-> to_hash_map(spec.config[1]), src |-> <<>>]
    /\ UNCHANGED <<spec, status>>

\* The caller takes the returned value; the next call or write follows.
TakeResult ==
    /\ call # NoCall
    /\ call' = NoCall
    /\ UNCHANGED <<spec, status>>

Next ==
    \/ ReplaceSpec
    \/ UpdateStatus
    \/ CallFromStr
    \/ CallToString
    \/ FormatParsed
    \/ ParseFormatted
    \/ CallIsValidUpgrade
    \/ CallTargetImageName
    \/ CallToHashMap
    \/ TakeResult

Spec == Init /\ [][Next]_vars

-----------------------------------------------------------------------------
(* Expected values, written out as literals *)

Lit_3_4_14 == <<"3", ".", "4", ".", "1", "4">>
Lit_3_5_8 == <<"3", ".", "5", ".", "8">>

\* The literal each enumerated version is written as.
VersionLiteral(v) == IF v = "v3_4_14" THEN Lit_3_4_14 ELSE Lit_3_5_8

\* The semantic-version triple of each enumerated version.
VersionTriple(v) == IF v = "v3_4_14" THEN <<3, 4, 14>> ELSE <<3, 5, 8>>

\* Strictly greater on triples, by the first component that differs.
TripleGreater(x, y) ==
    \E i \in 1..3 : x[i] > y[i] /\ \A j \in 1..(i - 1) : x[j] = y[j]

\* The external option names, in field order.
OptionNames ==
    << <<"c", "l", "i", "e", "n", "t", "P", "o", "r", "t">>,
       <<"d", "a", "t", "a", "D", "i", "r">>,
       <<"i", "n", "i", "t", "L", "i", "m", "i", "t">>,
       <<"s", "y", "n", "c", "L", "i", "m", "i", "t">>,
       <<"t", "i", "c", "k", "T", "i", "m", "e">> >>

\* The base-10 form of the integers the configurations carry.
DecimalLiteral(n) ==
    CASE n = 0 -> <<"0">>
      [] n = 10 -> <<"1", "0">>
      [] n = 123 -> <<"1", "2", "3">>
      [] n = 2000 -> <<"2", "0", "0", "0">>
      [] n = 2181 -> <<"2", "1", "8", "1">>

PresentFields(conf) == {i \in 1..5 : IsSome(FieldValue(conf, i))}

AllAbsent ==
    [client_port |-> None, data_dir |-> None, init_limit |-> None,
     sync_limit |-> None, tick_time |-> None]

-----------------------------------------------------------------------------
(* Properties *)

\* C1: is_valid_upgrade(a, b) returns true exactly when b's (major, minor,
\* patch) triple is strictly greater than a's; (a, a) gives false,
\* 3.4.14 -> 3.5.8 gives true and 3.5.8 -> 3.4.14 gives false.
C1_UpgradeIffStrictlyGreater ==
    call.op = "is_valid_upgrade" =>
        LET a == call.arg[1]
            b == call.arg[2]
        IN /\ call.result = Ok(TripleGreater(VersionTriple(b), VersionTriple(a)))
           /\ (a = b => call.result = Ok(FALSE))
           /\ (a = "v3_4_14" /\ b = "v3_5_8" => call.result = Ok(TRUE))
           /\ (a = "v3_5_8" /\ b = "v3_4_14" => call.result = Ok(FALSE))

C1_Witness ==
    /\ call.op = "is_valid_upgrade"
    /\ call.arg = <<"v3_4_14", "v3_5_8">>
    /\ call.result = Ok(TRUE)

\* C2: parsing an enumerated literal succeeds and formatting the parsed
\* version gives the literal back; parsing the formatted string of an
\* enumerated version gives the version back.
C2_ParseFormatRoundTrip ==
    /\ (call.op = "from_str" /\ call.arg[1] \in {Lit_3_4_14, Lit_3_5_8}
           => call.result.ok)
    /\ (call.op = "to_string" /\ call.src # <<>>
           => call.result = call.src[1])
    /\ (call.op = "from_str" /\ call.src # <<>>
           => call.result = Ok(call.src[1]))

C2_Witness ==
    /\ call.op = "to_string"
    /\ call.src = <<Lit_3_4_14>>
    /\ call.result = Lit_3_4_14

\* C3: from_str fails, with the unknown-variant error, exactly when the string
\* is none of the enumerated literals; an accepted string gives its own
\* variant, and no other string gives any version.
C3_UnknownVersionRejected ==
    call.op = "from_str" =>
        LET s == call.arg[1]
        IN /\ (call.result.ok <=> s \in {Lit_3_4_14, Lit_3_5_8})
           /\ (~call.result.ok => call.result = Err("VariantNotFound"))
           /\ (call.result.ok => VersionLiteral(call.result.val[1]) = s)

C3_Witness ==
    /\ call.op = "from_str"
    /\ call.arg = << <<"1", ".", "2", ".", "3">> >>
    /\ call.result = Err("VariantNotFound")

\* C4: target_image_name is None when target_version is absent, and otherwise
\* Some("stackable/zookeeper" ":" literal of target_version), whatever
\* current_version and conditions are.
C4_TargetImageName ==
    call.op = "target_image_name" =>
        LET st == call.arg[1]
        IN call.result =
             IF st.target_version = None THEN Returned(None)
             ELSE Returned(Some(
                      <<"s", "t", "a", "c", "k", "a", "b", "l", "e", "/",
                        "z", "o", "o", "k", "e", "e", "p", "e", "r">>
                        \o <<":">> \o VersionLiteral(st.target_version[1])))

C4_Witness ==
    /\ call.op = "target_image_name"
    /\ call.arg[1].target_version = Some("v3_5_8")
    /\ call.arg[1].current_version = Some("v3_4_14")
    /\ call.arg[1].conditions # <<>>
    /\ call.result = Returned(Some(
           <<"s", "t", "a", "c", "k", "a", "b", "l", "e", "/",
             "z", "o", "o", "k", "e", "e", "p", "e", "r", ":",
             "3", ".", "5", ".", "8">>))

\* C5: the key set of the projection is exactly the set of present fields; an
\* absent field gives no entry, and the configuration with all five fields
\* absent projects to the empty mapping.
C5_KeysAreThePresentFields ==
    call.op = "to_hash_map" =>
        LET conf == call.arg[1]
        IN /\ call.result.ok
           /\ DOMAIN call.result.val[1]
                = {OptionNames[i] : i \in PresentFields(conf)}
           /\ Cardinality(DOMAIN call.result.val[1])
                = Cardinality(PresentFields(conf))
           /\ (conf = AllAbsent => call.result.val[1] = EmptyMap)

C5_Witness ==
    /\ call.op = "to_hash_map"
    /\ call.arg[1] = AllAbsent
    /\ DOMAIN call.result.val[1] = {}

\* C6: each present field gives one entry, under its lowerCamelCase option
\* name, whose value is the field's string form (integers in base 10, the path
\* verbatim); only tick_time = Some(123) gives {"tickTime": "123"}.
C6_EntriesAreNamedAndFormatted ==
    call.op = "to_hash_map" =>
        LET conf == call.arg[1]
            m == call.result.val[1]
        IN /\ \A i \in PresentFields(conf) :
                /\ OptionNames[i] \in DOMAIN m
                /\ m[OptionNames[i]] =
                     IF i = 2 THEN FieldValue(conf, i)[1]
                     ELSE DecimalLiteral(FieldValue(conf, i)[1])
           /\ (conf = [AllAbsent EXCEPT !.tick_time = Some(123)]
                 => /\ DOMAIN m = { <<"t", "i", "c", "k", "T", "i", "m", "e">> }
                    /\ m[<<"t", "i", "c", "k", "T", "i", "m", "e">>]
                         = <<"1", "2", "3">>)

C6_Witness ==
    /\ call.op = "to_hash_map"
    /\ call.arg[1] = [AllAbsent EXCEPT !.tick_time = Some(123)]
    /\ DOMAIN call.result.val[1] = { <<"t", "i", "c", "k", "T", "i", "m", "e">> }

\* C7: "is_valid_upgrade(a, b) is true" is a strict total order on the
\* enumerated versions: irreflexive, never true in both directions, transitive
\* over every triple, and true in exactly one direction for distinct versions.
C7_StrictTotalOrder ==
    call.op = "is_valid_upgrade" =>
        LET a == call.arg[1]
            b == call.arg[2]
            r == (call.result = Ok(TRUE))
            Up(x, y) == (is_valid_upgrade(x, y) = Ok(TRUE))
        IN /\ (a = b => ~r)
           /\ (r => ~Up(b, a))
           /\ (a # b => (r <=> ~Up(b, a)))
           /\ \A c \in ZooKeeperVersion : (r /\ Up(b, c) => Up(a, c))

C7_Witness ==
    /\ call.op = "is_valid_upgrade"
    /\ call.arg[1] # call.arg[2]
    /\ call.result = Ok(FALSE)
    /\ is_valid_upgrade(call.arg[2], call.arg[1]) = Ok(TRUE)

\* C8: is_valid_upgrade returns no error for any pair of enumerated versions:
\* an equal or lower target gives the success value false, and the string form
\* of every variant parses as a semantic version.
C8_UpgradeNeverErrs ==
    /\ \A v \in ZooKeeperVersion : VersionParse(to_string(v)).ok
    /\ (call.op = "is_valid_upgrade" =>
          /\ call.result.ok
          /\ call.result.err = <<>>
          /\ call.result.val[1] \in BOOLEAN
          /\ (~TripleGreater(VersionTriple(call.arg[2]),
                             VersionTriple(call.arg[1]))
                => call.result = Ok(FALSE)))

C8_Witness ==
    /\ call.op = "is_valid_upgrade"
    /\ call.arg = <<"v3_5_8", "v3_5_8">>
    /\ call.result = Ok(FALSE)

\* C10: the serde string and the strum string of every variant are equal, so
\* target_image_name never panics and the tag of the image it returns parses
\* back to target_version.
C10_StringTablesAgree ==
    /\ \A v \in ZooKeeperVersion : SerdeRename(v) = StrumSerialize(v)
    /\ (call.op = "target_image_name" =>
          /\ ~call.result.panicked
          /\ (IsSome(call.arg[1].target_version) =>
                LET image == call.result.ret[1][1]
                    tag == SubSeq(image, Len(ImagePrefix) + 1, Len(image))
                IN from_str(tag) = Ok(call.arg[1].target_version[1])))

C10_Witness ==
    /\ call.op = "target_image_name"
    /\ call.arg[1].target_version = Some("v3_4_14")
    /\ ~call.result.panicked
    /\ from_str(SubSeq(call.result.ret[1][1], Len(ImagePrefix) + 1,
                       Len(call.result.ret[1][1]))) = Ok("v3_4_14")

====
